---- MODULE Spec2Model ----
(***************************************************************************)
(* Cloudforms.managers.vs.VSManager: a manager object holding a reference  *)
(* to an API client, and seven methods that merge parameters, make one     *)
(* blocking client call and normalise what the client returns.             *)
(*                                                                         *)
(* Python values are modelled as follows.  A dict is Dict(f) with f a      *)
(* function from its keys to its values, None is the value None.  A call   *)
(* of a method by a caller thread c takes two steps: the method up to the  *)
(* entry of client.call (the request is emitted), and the completion of    *)
(* client.call (it returns a raw response or raises) together with the     *)
(* rest of the method.                                                     *)
(***************************************************************************)
EXTENDS Naturals, Sequences, FiniteSets, TLC

(* ------------------------------ bounds --------------------------------- *)

\* caller threads that may use the one manager at the same time
NumCallers == 2
\* longest collection the client returns for GET /vms
MaxResources == 2

(* --------------------------- Python values ----------------------------- *)

EmptyItems == [k \in {} |-> ""]
None == [isdict |-> FALSE, items |-> EmptyItems]
Dict(f) == [isdict |-> TRUE, items |-> f]

(* --------------------------- input domains ----------------------------- *)

Callers == 1..NumCallers
Clients == {"client_a", "client_b"}
Ids == {"42", "7"}
ActionNames == {"start", "stop", "suspend", "delete", "reset"}
Errors == {"ConnectionError", "AuthenticationError"}

\* what a caller may put under each key of its params mapping; each value
\* differs from the one the methods enforce
CallerValue == [expand |-> "other", action |-> "reboot", attributes |-> "id"]
ParamDicts == {Dict([k \in ks |-> CallerValue[k]]) : ks \in SUBSET (DOMAIN CallerValue)}
Params == {None} \cup ParamDicts

\* resources of the remote system, and the envelope the API wraps them in
Resources == {[id |-> "42", power_state |-> "on"], [id |-> "7", power_state |-> "off"]}
Envelope(inner) == [resources |-> inner]
RawObjects == {Envelope(r) : r \in Resources}
SeqsUpTo(S, n) == UNION {[1..m -> S] : m \in 0..n}
RawCollections == {Envelope(s) : s \in SeqsUpTo(RawObjects, MaxResources)}

\* the smaller domains of the concurrent specification
ConcParams == {None, Dict(CallerValue)}
ConcActionNames == {"reset"}
ConcErrors == {"ConnectionError"}
ConcRawObjects == {Envelope([id |-> "42", power_state |-> "on"])}
ConcRawCollections == {Envelope(s) : s \in SeqsUpTo(ConcRawObjects, MaxResources)}

(* ------------------------------- state --------------------------------- *)

VARIABLES
    vs_mgr,         \* the manager object: its instance attributes
    ctor_client,    \* the client that was given to the constructor
    pc,             \* per caller: "idle", "in_call" (inside client.call), "done"
    call,           \* per caller: the method called and its arguments
    origin,         \* per caller: its params mapping as the caller built it
    argobj,         \* per caller: its params mapping as it is now
    held,           \* per caller: the method its mapping was last passed to
    frame,          \* per caller: the method whose frame waits in client.call
    emitted,        \* per caller: the client calls made by the current call
    client_result,  \* per caller: what client.call returned or raised
    outcome         \* per caller: what the caller got back from the method

vars == <<vs_mgr, ctor_client, pc, call, origin, argobj, held, frame, emitted,
          client_result, outcome>>

NoCall == [op |-> "none", _id |-> "", action |-> "", params |-> None,
           after |-> "none"]
NoResult == [kind |-> "none", value |-> EmptyItems, error |-> ""]
Returned(v) == [kind |-> "return", value |-> v, error |-> ""]
Raised(e) == [kind |-> "raise", value |-> EmptyItems, error |-> e]

(* ------------------------ Cloudforms.utils ----------------------------- *)

\* update_params(params, updates): a new mapping holding params' entries
\* (none when params is None) overwritten by those of updates
update_params(params, updates) ==
    LET base == IF params.isdict THEN params.items ELSE EmptyItems
    IN  Dict([k \in (DOMAIN base) \cup (DOMAIN updates) |->
                 IF k \in DOMAIN updates THEN updates[k] ELSE base[k]])

\* normalize_object(raw): the mapping inside the envelope
normalize_object(raw) == raw.resources

\* normalize_collection(raw): the unwrapping of each element, in order
normalize_collection(raw) ==
    [i \in 1..Len(raw.resources) |-> normalize_object(raw.resources[i])]

(* ------------------------------ client --------------------------------- *)

\* self.client.call(method, path, **kwargs): the request reaches the client
\* the manager holds, and the calling thread blocks in it
client_call(c, method, path, kwargs) ==
    emitted' = [emitted EXCEPT ![c] =
                   Append(@, [client |-> vs_mgr.client, method |-> method,
                              path |-> path, kwargs |-> kwargs])]

(* ------------------------------ VSManager ------------------------------ *)

\* __init__(self, client)
VSManager(client) == [client |-> client]

Init ==
    /\ ctor_client \in Clients
    /\ vs_mgr = VSManager(ctor_client)
    /\ pc = [c \in Callers |-> "idle"]
    /\ call = [c \in Callers |-> NoCall]
    /\ origin = [c \in Callers |-> None]
    /\ argobj = [c \in Callers |-> None]
    /\ held = [c \in Callers |-> "none"]
    /\ frame = [c \in Callers |-> "none"]
    /\ emitted = [c \in Callers |-> <<>>]
    /\ client_result = [c \in Callers |-> NoResult]
    /\ outcome = [c \in Callers |-> NoResult]

(* ------------------------------ callers -------------------------------- *)

\* A caller thread enters method op with the arguments given.  The mapping it
\* passes is one it builds for this call, or (reuse) the one it holds since
\* an earlier call; call[c].after is then the method of that earlier call.
invoke(c, op, _id, action, params, reuse) ==
    /\ pc[c] = "idle"
    /\ reuse => held[c] # "none"
    /\ pc' = [pc EXCEPT ![c] = "in_call"]
    /\ call' = [call EXCEPT ![c] =
                   [op |-> op, _id |-> _id, action |-> action, params |-> params,
                    after |-> IF reuse THEN held[c] ELSE "none"]]
    /\ origin' = [origin EXCEPT ![c] = IF reuse THEN @ ELSE params]
    /\ held' = [held EXCEPT ![c] = op]
    /\ UNCHANGED <<ctor_client, client_result, outcome>>

\* the mappings a caller can pass: a new one out of P, or the one it holds
Passed(c, P, reuse) == IF reuse THEN {argobj[c]} ELSE P

\* the caller is done with the result and becomes ready for its next call;
\* it keeps its params mapping for a later call (keep) or drops it
caller_continue(c, keep) ==
    /\ pc[c] = "done"
    /\ pc' = [pc EXCEPT ![c] = "idle"]
    /\ call' = [call EXCEPT ![c] = NoCall]
    /\ emitted' = [emitted EXCEPT ![c] = <<>>]
    /\ client_result' = [client_result EXCEPT ![c] = NoResult]
    /\ outcome' = [outcome EXCEPT ![c] = NoResult]
    /\ IF keep
       THEN UNCHANGED <<origin, argobj, held>>
       ELSE /\ origin' = [origin EXCEPT ![c] = None]
            /\ argobj' = [argobj EXCEPT ![c] = None]
            /\ held' = [held EXCEPT ![c] = "none"]
    /\ UNCHANGED <<vs_mgr, ctor_client, frame>>

(* ------------------- methods, up to the client call -------------------- *)

\* get merging the other way round: the caller's 'expand' survives
get_caller_wins(c, _id, params) ==
    LET defaults == Dict([expand |-> "resources"])
        merged == IF params.isdict THEN update_params(defaults, params.items)
                  ELSE defaults
    IN  /\ client_call(c, "get", "/vms/" \o _id, [params |-> merged])
        /\ frame' = [frame EXCEPT ![c] = "get"]
        /\ argobj' = [argobj EXCEPT ![c] = params]
        /\ UNCHANGED vs_mgr

\* get keeping the merged mapping on the manager, and sending what it finds
\* there when another call has left one
get_shared(c, _id, params) ==
    LET merged == update_params(params, [expand |-> "resources"])
        sent == IF "params" \in DOMAIN vs_mgr THEN vs_mgr.params ELSE merged
    IN  /\ client_call(c, "get", "/vms/" \o _id, [params |-> sent])
        /\ frame' = [frame EXCEPT ![c] = "get"]
        /\ argobj' = [argobj EXCEPT ![c] = params]
        /\ vs_mgr' = [client |-> vs_mgr.client, params |-> merged]

\* get updating the caller's mapping in place (params.update(...))
get_in_place(c, _id, params) ==
    LET merged == update_params(params, [expand |-> "resources"])
    IN  /\ client_call(c, "get", "/vms/" \o _id, [params |-> merged])
        /\ frame' = [frame EXCEPT ![c] = "get"]
        /\ argobj' = [argobj EXCEPT ![c] = IF params.isdict THEN merged ELSE params]
        /\ UNCHANGED vs_mgr

get(c, _id, params) ==
    LET merged == update_params(params, [expand |-> "resources"])
    IN  /\ client_call(c, "get", "/vms/" \o _id, [params |-> merged])
        /\ frame' = [frame EXCEPT ![c] = "get"]
        /\ argobj' = [argobj EXCEPT ![c] = params]
        /\ UNCHANGED vs_mgr

\* list sending the defaults alone
list_defaults_only(c, params) ==
    /\ client_call(c, "get", "/vms", [params |-> Dict([expand |-> "resources"])])
    /\ frame' = [frame EXCEPT ![c] = "list"]
    /\ argobj' = [argobj EXCEPT ![c] = params]
    /\ UNCHANGED vs_mgr

list(c, params) ==
    LET merged == update_params(params, [expand |-> "resources"])
    IN  /\ client_call(c, "get", "/vms", [params |-> merged])
        /\ frame' = [frame EXCEPT ![c] = "list"]
        /\ argobj' = [argobj EXCEPT ![c] = params]
        /\ UNCHANGED vs_mgr

\* perform_action merging the other way round: the caller's 'action' survives
perform_action_caller_wins(c, _id, action, params) ==
    LET defaults == Dict([action |-> action])
        merged == IF params.isdict THEN update_params(defaults, params.items)
                  ELSE defaults
    IN  /\ client_call(c, "post", "/vms/" \o _id, [data |-> merged])
        /\ frame' = [frame EXCEPT ![c] = "perform_action"]
        /\ argobj' = [argobj EXCEPT ![c] = params]
        /\ UNCHANGED vs_mgr

\* perform_action passing the merged mapping as query parameters too
perform_action_both_channels(c, _id, action, params) ==
    LET merged == update_params(params, [action |-> action])
    IN  /\ client_call(c, "post", "/vms/" \o _id,
                       [params |-> merged, data |-> merged])
        /\ frame' = [frame EXCEPT ![c] = "perform_action"]
        /\ argobj' = [argobj EXCEPT ![c] = params]
        /\ UNCHANGED vs_mgr

perform_action(c, _id, action, params) ==
    LET merged == update_params(params, [action |-> action])
    IN  /\ client_call(c, "post", "/vms/" \o _id, [data |-> merged])
        /\ frame' = [frame EXCEPT ![c] = "perform_action"]
        /\ argobj' = [argobj EXCEPT ![c] = params]
        /\ UNCHANGED vs_mgr

start(c, _id, params) == perform_action(c, _id, "start", params)

stop(c, _id, params) == perform_action(c, _id, "stop", params)

suspend(c, _id, params) == perform_action(c, _id, "suspend", params)

\* delete sent as an HTTP DELETE of the resource
delete_http(c, _id, params) ==
    /\ client_call(c, "delete", "/vms/" \o _id, [params |-> update_params(params, EmptyItems)])
    /\ frame' = [frame EXCEPT ![c] = "perform_action"]
    /\ argobj' = [argobj EXCEPT ![c] = params]
    /\ UNCHANGED vs_mgr

delete(c, _id, params) == perform_action(c, _id, "delete", params)

(* ---------------- methods, from the client call's end ------------------ *)

\* the bookkeeping of a call's end: the thread leaves client.call and the
\* method's frame, and the caller holds the outcome
finish(c, fromClient, toCaller) ==
    /\ pc' = [pc EXCEPT ![c] = "done"]
    /\ frame' = [frame EXCEPT ![c] = "none"]
    /\ client_result' = [client_result EXCEPT ![c] = fromClient]
    /\ outcome' = [outcome EXCEPT ![c] = toCaller]
    /\ UNCHANGED <<vs_mgr, ctor_client, call, origin, argobj, held>>

\* get returning the raw response, envelope and all
get_result_raw(c, raw) ==
    /\ pc[c] = "in_call" /\ frame[c] = "get"
    /\ finish(c, Returned(raw), Returned(raw))
    /\ UNCHANGED emitted

\* get: client.call returns raw
get_result(c, raw) ==
    /\ pc[c] = "in_call" /\ frame[c] = "get"
    /\ finish(c, Returned(raw), Returned(normalize_object(raw)))
    /\ UNCHANGED emitted

\* list returning the resources last first
list_result_reversed(c, raw) ==
    LET n == Len(raw.resources)
    IN  /\ pc[c] = "in_call" /\ frame[c] = "list"
        /\ finish(c, Returned(raw),
                  Returned([i \in 1..n |-> normalize_object(raw.resources[n + 1 - i])]))
        /\ UNCHANGED emitted

\* list: client.call returns raw
list_result(c, raw) ==
    /\ pc[c] = "in_call" /\ frame[c] = "list"
    /\ finish(c, Returned(raw), Returned(normalize_collection(raw)))
    /\ UNCHANGED emitted

\* perform_action (called directly or by start, stop, suspend, delete, which
\* return what it returns): client.call returns raw
perform_action_result(c, raw) ==
    /\ pc[c] = "in_call" /\ frame[c] = "perform_action"
    /\ finish(c, Returned(raw), Returned(normalize_object(raw)))
    /\ UNCHANGED emitted

\* the error caught and an empty mapping returned in its place
call_raises_swallowed(c, err) ==
    /\ pc[c] = "in_call"
    /\ finish(c, Raised(err), Returned(EmptyItems))
    /\ UNCHANGED emitted

\* any method: client.call raises err; no frame of the manager handles it
call_raises(c, err) ==
    /\ pc[c] = "in_call"
    /\ finish(c, Raised(err), Raised(err))
    /\ UNCHANGED emitted

(* --------------------------- specifications ---------------------------- *)

\* the steps of caller c, its inputs drawn from the sets given
Step(c, P, A, E, RO, RC, R) ==
    \/ \E _id \in Ids, reuse \in R : \E params \in Passed(c, P, reuse) :
          invoke(c, "get", _id, "", params, reuse) /\ get(c, _id, params)
    \/ \E reuse \in R : \E params \in Passed(c, P, reuse) :
          invoke(c, "list", "", "", params, reuse) /\ list(c, params)
    \/ \E _id \in Ids, action \in A, reuse \in R : \E params \in Passed(c, P, reuse) :
          invoke(c, "perform_action", _id, action, params, reuse)
          /\ perform_action(c, _id, action, params)
    \/ \E _id \in Ids, reuse \in R : \E params \in Passed(c, P, reuse) :
          invoke(c, "start", _id, "", params, reuse) /\ start(c, _id, params)
    \/ \E _id \in Ids, reuse \in R : \E params \in Passed(c, P, reuse) :
          invoke(c, "stop", _id, "", params, reuse) /\ stop(c, _id, params)
    \/ \E _id \in Ids, reuse \in R : \E params \in Passed(c, P, reuse) :
          invoke(c, "suspend", _id, "", params, reuse) /\ suspend(c, _id, params)
    \/ \E _id \in Ids, reuse \in R : \E params \in Passed(c, P, reuse) :
          invoke(c, "delete", _id, "", params, reuse) /\ delete(c, _id, params)
    \/ \E raw \in RO : get_result(c, raw)
    \/ \E raw \in RC : list_result(c, raw)
    \/ \E raw \in RO : perform_action_result(c, raw)
    \/ \E err \in E : call_raises(c, err)
    \/ \E keep \in R : caller_continue(c, keep)

\* one caller, every input
Next == Step(1, Params, ActionNames, Errors, RawObjects, RawCollections, BOOLEAN)

Spec == Init /\ [][Next]_vars

\* every caller, each at its own pace; a caller builds a mapping per call
NextConcurrent ==
    \E c \in Callers :
        Step(c, ConcParams, ConcActionNames, ConcErrors, ConcRawObjects,
             ConcRawCollections, {FALSE})

SpecConcurrent == Init /\ [][NextConcurrent]_vars

(* ------------------------------- claims -------------------------------- *)

\* the path of the single-resource endpoint, id by id
VmPath == ("42" :> "/vms/42") @@ ("7" :> "/vms/7")

Reads == {"get", "list"}
Wrappers == {"start", "stop", "suspend", "delete"}
Actions == {"perform_action"} \cup Wrappers

Active(c) == pc[c] # "idle"
Sent(c) == emitted[c][1]
HasEntry(d, k, v) == d.isdict /\ k \in DOMAIN d.items /\ d.items[k] = v
\* every entry of mapping d under a key not in ks is an entry of mapping m
KeepsEntries(d, ks, m) ==
    \A k \in (DOMAIN d.items) \ ks : HasEntry(m, k, d.items[k])

\* C1: a call of get(id, params), whatever params is, makes exactly one
\* client call, a GET of /vms/{id} whose query parameters hold
\* expand = 'resources'.
C1_GetRequest ==
    \A c \in Callers : (Active(c) /\ call[c].op = "get") =>
        /\ Len(emitted[c]) = 1
        /\ Sent(c).method = "get"
        /\ Sent(c).path = VmPath[call[c]._id]
        /\ "params" \in DOMAIN Sent(c).kwargs
        /\ HasEntry(Sent(c).kwargs.params, "expand", "resources")

\* get has returned for a caller whose params held another 'expand'
C1_Witness ==
    \E c \in Callers :
        /\ pc[c] = "done" /\ call[c].op = "get" /\ outcome[c].kind = "return"
        /\ HasEntry(call[c].params, "expand", "other")

\* C2: a call of list(params) makes one GET of /vms whose query holds
\* expand = 'resources' and every caller entry whose key is not 'expand'.
C2_ListRequest ==
    \A c \in Callers : (Active(c) /\ call[c].op = "list") =>
        /\ Len(emitted[c]) = 1
        /\ Sent(c).method = "get"
        /\ Sent(c).path = "/vms"
        /\ "params" \in DOMAIN Sent(c).kwargs
        /\ HasEntry(Sent(c).kwargs.params, "expand", "resources")
        /\ KeepsEntries(call[c].params, {"expand"}, Sent(c).kwargs.params)

\* list has returned for a caller whose params held three keys, 'expand' too
C2_Witness ==
    \E c \in Callers :
        /\ pc[c] = "done" /\ call[c].op = "list" /\ outcome[c].kind = "return"
        /\ call[c].params = Dict(CallerValue)

\* C3: a call of perform_action(id, action, params) makes exactly one POST to
\* /vms/{id} whose body holds action = the action argument, also when params
\* holds an 'action' of its own.
C3_ActionRequest ==
    \A c \in Callers : (Active(c) /\ call[c].op = "perform_action") =>
        /\ Len(emitted[c]) = 1
        /\ Sent(c).method = "post"
        /\ Sent(c).path = VmPath[call[c]._id]
        /\ "data" \in DOMAIN Sent(c).kwargs
        /\ HasEntry(Sent(c).kwargs.data, "action", call[c].action)

\* perform_action has returned for a caller whose params held another 'action'
C3_Witness ==
    \E c \in Callers :
        /\ pc[c] = "done" /\ call[c].op = "perform_action"
        /\ outcome[c].kind = "return"
        /\ HasEntry(call[c].params, "action", "reboot")
        /\ call[c].action = "suspend"

\* C4: start, stop, suspend and delete emit the request of perform_action
\* called with their name as the action (a POST, never a DELETE), wait in
\* perform_action's frame and hand back what perform_action hands back.
C4_WrappersDelegate ==
    \A c \in Callers : (Active(c) /\ call[c].op \in Wrappers) =>
        /\ emitted[c] =
              << [client |-> vs_mgr.client, method |-> "post",
                  path |-> VmPath[call[c]._id],
                  kwargs |-> [data |-> update_params(call[c].params,
                                                     [action |-> call[c].op])]] >>
        /\ HasEntry(Sent(c).kwargs.data, "action", call[c].op)
        /\ pc[c] = "in_call" => frame[c] = "perform_action"
        /\ (pc[c] = "done" /\ client_result[c].kind = "return") =>
              outcome[c] = Returned(normalize_object(client_result[c].value))
        /\ (pc[c] = "done" /\ client_result[c].kind = "raise") =>
              outcome[c] = client_result[c]

\* delete has returned a task for a caller that passed a mapping
C4_Witness ==
    \E c \in Callers :
        /\ pc[c] = "done" /\ call[c].op = "delete" /\ outcome[c].kind = "return"
        /\ call[c].params.isdict

\* C5: when the client returns an envelope around a mapping, get returns
\* that mapping, nothing added, removed or altered.
C5_GetUnwraps ==
    \A c \in Callers :
        (pc[c] = "done" /\ call[c].op = "get" /\ client_result[c].kind = "return") =>
            \E r \in Resources :
                /\ client_result[c].value = [resources |-> r]
                /\ outcome[c] = Returned(r)

\* get has returned the resource {id: 42, power_state: on}
C5_Witness ==
    \E c \in Callers :
        /\ pc[c] = "done" /\ call[c].op = "get" /\ call[c]._id = "42"
        /\ client_result[c].kind = "return"
        /\ outcome[c].kind = "return"
        /\ outcome[c].value = [id |-> "42", power_state |-> "on"]

\* C6: when the client returns an envelope around n wrapped resources, list
\* returns n mappings, the i-th the unwrapping of the i-th of the response.
C6_ListUnwrapsInOrder ==
    \A c \in Callers :
        (pc[c] = "done" /\ call[c].op = "list" /\ client_result[c].kind = "return") =>
            LET raw == client_result[c].value.resources
                got == outcome[c].value
            IN  /\ outcome[c].kind = "return"
                /\ Len(got) = Len(raw)
                /\ \A i \in 1..Len(raw) : raw[i] = [resources |-> got[i]]

\* list has returned two resources that differ
C6_Witness ==
    \E c \in Callers :
        /\ pc[c] = "done" /\ call[c].op = "list" /\ outcome[c].kind = "return"
        /\ Len(outcome[c].value) >= 2
        /\ outcome[c].value[1] # outcome[c].value[2]

\* C7: when the client call raises, the operation ends with that error at
\* the caller: one client call was made, nothing is returned.
C7_ErrorPropagates ==
    \A c \in Callers : (client_result[c].kind = "raise") =>
        /\ pc[c] = "done"
        /\ outcome[c].kind = "raise"
        /\ outcome[c].error = client_result[c].error
        /\ outcome[c].value = EmptyItems
        /\ Len(emitted[c]) = 1

\* the client call of suspend has raised an authentication error
C7_Witness ==
    \E c \in Callers :
        /\ pc[c] = "done" /\ call[c].op = "suspend"
        /\ client_result[c] = Raised("AuthenticationError")

\* C8: whatever the callers do and however their calls interleave, the
\* manager holds the constructor's client and nothing else, each call's
\* request goes to that client, and two calls with the same arguments emit
\* the same request.
C8_NoSharedState ==
    /\ vs_mgr = [client |-> ctor_client]
    /\ \A c \in Callers : Active(c) =>
          Len(emitted[c]) = 1 /\ Sent(c).client = ctor_client
    /\ \A c, d \in Callers :
          (Active(c) /\ Active(d) /\ call[c] = call[d]) => emitted[c] = emitted[d]

\* two callers are inside the client at once, with different arguments and
\* different requests
C8_Witness ==
    \E c, d \in Callers :
        /\ c # d /\ pc[c] = "in_call" /\ pc[d] = "in_call"
        /\ call[c].op = "get" /\ call[d].op = "get"
        /\ call[c].params # call[d].params
        /\ emitted[c] # emitted[d]

\* C9: get and list pass the merged mapping as query parameters only, and
\* the action methods as the body only; a read carries an 'action' and an
\* action an 'expand' only when the caller's params held it.
C9_Channels ==
    \A c \in Callers : Active(c) =>
        /\ call[c].op \in Reads =>
              /\ DOMAIN Sent(c).kwargs = {"params"}
              /\ KeepsEntries(Sent(c).kwargs.params, {"expand"}, call[c].params)
        /\ call[c].op \in Actions =>
              /\ DOMAIN Sent(c).kwargs = {"data"}
              /\ KeepsEntries(Sent(c).kwargs.data, {"action"}, call[c].params)

\* stop has been called with a mapping that holds 'expand'
C9_Witness ==
    \E c \in Callers :
        /\ pc[c] = "done" /\ call[c].op = "stop"
        /\ HasEntry(call[c].params, "expand", "other")
        /\ HasEntry(Sent(c).kwargs.data, "expand", "other")

\* C10: the caller's params mapping is as the caller built it, during and
\* after every call, so a mapping passed to a read and then to an action
\* brings no 'expand' into the body, nor the other way round an 'action'
\* into the query.
C10_ParamsUntouched ==
    \A c \in Callers :
        /\ argobj[c] = origin[c]
        /\ Active(c) =>
              /\ call[c].params = origin[c]
              /\ (call[c].op \in Actions /\ call[c].after \in Reads) =>
                    KeepsEntries(Sent(c).kwargs.data, {"action"}, origin[c])
              /\ (call[c].op \in Reads /\ call[c].after \in Actions) =>
                    KeepsEntries(Sent(c).kwargs.params, {"expand"}, origin[c])

\* perform_action has returned, called with the mapping of an earlier get
C10_Witness ==
    \E c \in Callers :
        /\ pc[c] = "done" /\ call[c].op = "perform_action" /\ call[c].after = "get"
        /\ origin[c].isdict /\ "expand" \notin DOMAIN origin[c].items
        /\ "attributes" \in DOMAIN origin[c].items

====
